---- MODULE Spec2Model ----
(***************************************************************************)
(* Model of converter.py: the AutoEq ParametricEQ.txt -> FabFilter Pro-Q 4 *)
(* (.ffp) preset converter.                                                *)
(*                                                                         *)
(* Texts are TLA+ strings, read character by character as the regular      *)
(* expressions of the source read them.  A Python float is modelled as an  *)
(* integer number of thousandths (Scale); the inputs the specifications    *)
(* draw are those on which the float arithmetic of the source is exact in  *)
(* thousandths (frequencies that are powers of two, Q in {<=0.025, 1,      *)
(* >=40}, preamps that are multiples of 0.036 dB).                         *)
(***************************************************************************)
EXTENDS Integers, Sequences, FiniteSets, TLC

VARIABLES
    pc,                   \* position of the script / of the conversion
    parametric_eq_files,  \* the discovered input files (their stems), in order
    idx,                  \* position of the batch loop in parametric_eq_files
    scenario,             \* which catalogue lines the text under conversion was built from
    input_text,           \* text read from the current input file
    preset,               \* EQPreset returned by parse_text_preset
    ffp_lines,            \* the list of lines eq_preset_to_ffp built
    ffp_content,          \* string returned by eq_preset_to_ffp
    presets_dir,          \* output directory: stem -> content of <stem>.ffp, or NoFile
    converted_count,
    failed_count

vars == <<pc, parametric_eq_files, idx, scenario, input_text, preset, ffp_lines,
          ffp_content, presets_dir, converted_count, failed_count>>

(***************************************************************************)
(* Bounds of the model.                                                    *)
(***************************************************************************)
MaxLines == 2      \* lines of a text drawn for the parser
MaxExtra == 1      \* freely chosen filters of a preset drawn for the emitter
MaxFiles == 2      \* input files discovered by the batch driver

Scale == 1000      \* thousandths: the fixed-point unit standing for a float

NoFile == "<no file>"
None == "<None>"

Max(a, b) == IF a >= b THEN a ELSE b
Min(a, b) == IF a <= b THEN a ELSE b

(***************************************************************************)
(* Characters and strings.                                                 *)
(***************************************************************************)
Ch(s, i) == SubSeq(s, i, i)

Whitespace == {" ", "\t", "\n", "\r", "\f"}
DigitChars == {"0", "1", "2", "3", "4", "5", "6", "7", "8", "9"}
\* code points in ascending order, for the characters that occur in keys
Alphabet == " -.0123456789:=ABCDEFGHIJKLMNOPQRSTUVWXYZ[]_abcdefghijklmnopqrstuvwxyz"
WordChars == {Ch(Alphabet, i) : i \in 4..13} \cup {Ch(Alphabet, i) : i \in 16..41}
                \cup {"_"} \cup {Ch(Alphabet, i) : i \in 45..70}

OrdTable == [c \in {Ch(Alphabet, i) : i \in 1..Len(Alphabet)} |->
                CHOOSE i \in 1..Len(Alphabet) : Ch(Alphabet, i) = c]

\* ord(c)
Ord(c) == OrdTable[c]

\* str.startswith
StartsWith(s, prefix) == Len(s) >= Len(prefix) /\ SubSeq(s, 1, Len(prefix)) = prefix

RECURSIVE SkipWhile(_, _, _)
\* first position >= p of s whose character is not in class C (Len(s)+1 if none)
SkipWhile(s, p, C) ==
    IF p <= Len(s) /\ Ch(s, p) \in C THEN SkipWhile(s, p + 1, C) ELSE p

RECURSIVE SkipBack(_, _, _)
SkipBack(s, p, C) ==
    IF p >= 1 /\ Ch(s, p) \in C THEN SkipBack(s, p - 1, C) ELSE p

\* str.strip()
Strip(s) ==
    LET first == SkipWhile(s, 1, Whitespace)
        last == SkipBack(s, Len(s), Whitespace)
    IN  IF first > last THEN "" ELSE SubSeq(s, first, last)

RECURSIVE FindChar(_, _, _)
\* first position >= p of s holding character c (Len(s)+1 if none)
FindChar(s, p, c) ==
    IF p <= Len(s) /\ Ch(s, p) # c THEN FindChar(s, p + 1, c) ELSE p

RECURSIVE FindBack(_, _, _)
\* last position <= p of s holding character c (0 if none)
FindBack(s, p, c) ==
    IF p >= 1 /\ Ch(s, p) # c THEN FindBack(s, p - 1, c) ELSE p

RECURSIVE SplitRange(_, _, _, _)
\* the pieces of s[lo..hi] between the occurrences of c, cut first at the
\* occurrence nearest the middle so that the recursion stays shallow
SplitRange(s, lo, hi, c) ==
    LET mid == (lo + hi) \div 2
        fwd == FindChar(s, IF mid < lo THEN lo ELSE mid, c)
        bwd == FindBack(s, mid - 1, c)
        q == IF fwd <= hi THEN fwd ELSE IF bwd >= lo THEN bwd ELSE 0
    IN  IF q = 0 THEN <<SubSeq(s, lo, hi)>>
        ELSE SplitRange(s, lo, q - 1, c) \o SplitRange(s, q + 1, hi, c)

\* str.split(c) for a one-character separator
Split(s, c) == SplitRange(s, 1, Len(s), c)

RECURSIVE JoinRange(_, _, _, _)
JoinRange(lines, lo, hi, sep) ==
    IF lo > hi THEN ""
    ELSE IF lo = hi THEN lines[lo]
    ELSE LET mid == (lo + hi) \div 2
         IN  JoinRange(lines, lo, mid, sep) \o sep \o JoinRange(lines, mid + 1, hi, sep)

\* sep.join(lines)
Join(lines, sep) == JoinRange(lines, 1, Len(lines), sep)

(***************************************************************************)
(* float(literal) and str(float), in thousandths.                          *)
(***************************************************************************)
DigitVal(c) == Ord(c) - Ord("0")

RECURSIVE DigitsVal(_)
DigitsVal(s) ==
    IF Len(s) = 0 THEN 0
    ELSE DigitsVal(SubSeq(s, 1, Len(s) - 1)) * 10 + DigitVal(Ch(s, Len(s)))

\* float(lit) for a literal of the shape -?\d+\.?\d* with at most three decimals
ParseFloat(lit) ==
    LET neg == Ch(lit, 1) = "-"
        body == IF neg THEN SubSeq(lit, 2, Len(lit)) ELSE lit
        dot == FindChar(body, 1, ".")
        whole == SubSeq(body, 1, dot - 1)
        frac == IF dot >= Len(body) THEN "" ELSE SubSeq(body, dot + 1, Len(body))
        mag == DigitsVal(whole) * Scale + DigitsVal(SubSeq(frac \o "000", 1, 3))
    IN  IF neg THEN 0 - mag ELSE mag

RECURSIVE StripZeros(_)
StripZeros(s) ==
    IF Len(s) > 1 /\ Ch(s, Len(s)) = "0" THEN StripZeros(SubSeq(s, 1, Len(s) - 1)) ELSE s

\* a formatting that drops the fraction of an integral float, as '%g' does
FloatStrG(x) ==
    LET mag == IF x < 0 THEN 0 - x ELSE x
        frac == mag % Scale
        pad == IF frac < 10 THEN "00" ELSE IF frac < 100 THEN "0" ELSE ""
    IN  (IF x < 0 THEN "-" ELSE "") \o ToString(mag \div Scale)
            \o (IF frac = 0 THEN "" ELSE "." \o StripZeros(pad \o ToString(frac)))

\* str(x) of a float x: shortest repr, always with a decimal point
FloatStr(x) ==
    LET mag == IF x < 0 THEN 0 - x ELSE x
        frac == mag % Scale
        pad == IF frac < 10 THEN "00" ELSE IF frac < 100 THEN "0" ELSE ""
    IN  (IF x < 0 THEN "-" ELSE "") \o ToString(mag \div Scale) \o "."
            \o StripZeros(pad \o ToString(frac))

(***************************************************************************)
(* Regular expressions of parse_text_preset.  A position is an index into  *)
(* the line; 0 is "no match".  Every quantifier of the two patterns is     *)
(* followed by an element that cannot start with a character of its class, *)
(* so greedy matching without backtracking decides the match.              *)
(***************************************************************************)
Lit(s, p, lit) ==
    IF p > 0 /\ p + Len(lit) - 1 <= Len(s) /\ SubSeq(s, p, p + Len(lit) - 1) = lit
    THEN p + Len(lit) ELSE 0

\* C*
Star(s, p, C) == IF p = 0 THEN 0 ELSE SkipWhile(s, p, C)

\* C+
Plus(s, p, C) == IF p = 0 \/ SkipWhile(s, p, C) = p THEN 0 ELSE SkipWhile(s, p, C)

\* x?
Opt(s, p, lit) == IF p = 0 THEN 0 ELSE IF Lit(s, p, lit) # 0 THEN Lit(s, p, lit) ELSE p

\* \d+\.?\d*
Decimal(s, p) == Star(s, Opt(s, Plus(s, p, DigitChars), "."), DigitChars)

\* -?\d+\.?\d*
SignedDecimal(s, p) == Decimal(s, Opt(s, p, "-"))

Group(s, from, to) == SubSeq(s, from, to - 1)

NoMatch == [end |-> 0]

\* r'Preamp:\s*(-?\d+\.?\d*)\s*dB' tried at position p
MatchPreampAt(s, p) ==
    LET p1 == Star(s, Lit(s, p, "Preamp:"), Whitespace)
        p2 == SignedDecimal(s, p1)
        p3 == Lit(s, Star(s, p2, Whitespace), "dB")
    IN  IF p3 = 0 THEN NoMatch ELSE [end |-> p3, g1 |-> Group(s, p1, p2)]

\* the filter pattern tried at position p
MatchFilterAt(s, p) ==
    LET p1 == Plus(s, Lit(s, p, "Filter"), Whitespace)
        p2 == Plus(s, Lit(s, Plus(s, p1, DigitChars), ":"), Whitespace)
        p3 == IF Lit(s, p2, "ON") # 0 THEN Lit(s, p2, "ON") ELSE Lit(s, p2, "OFF")
        p4 == Plus(s, p3, Whitespace)
        p5 == Plus(s, p4, WordChars)
        p6 == Plus(s, Lit(s, Plus(s, p5, Whitespace), "Fc"), Whitespace)
        p7 == Decimal(s, p6)
        p8 == Plus(s, Lit(s, Star(s, p7, Whitespace), "Hz"), Whitespace)
        p9 == Plus(s, Lit(s, p8, "Gain"), Whitespace)
        p10 == SignedDecimal(s, p9)
        p11 == Plus(s, Lit(s, Star(s, p10, Whitespace), "dB"), Whitespace)
        p12 == Plus(s, Lit(s, p11, "Q"), Whitespace)
        p13 == Decimal(s, p12)
    IN  IF p13 = 0 THEN NoMatch
        ELSE [end |-> p13, g1 |-> Group(s, p2, p3), g2 |-> Group(s, p4, p5),
              g3 |-> Group(s, p6, p7), g4 |-> Group(s, p9, p10),
              g5 |-> Group(s, p12, p13)]

\* re.search: the match at the leftmost position where the pattern matches
SearchPreamp(s) ==
    LET at == {p \in 1..Len(s) : MatchPreampAt(s, p).end # 0}
    IN  IF at = {} THEN NoMatch
        ELSE MatchPreampAt(s, CHOOSE p \in at : \A r \in at : p <= r)

SearchFilter(s) ==
    LET at == {p \in 1..Len(s) : MatchFilterAt(s, p).end # 0}
    IN  IF at = {} THEN NoMatch
        ELSE MatchFilterAt(s, CHOOSE p \in at : \A r \in at : p <= r)

(***************************************************************************)
(* parse_text_preset                                                       *)
(***************************************************************************)
Filter(enabled, filter_type, frequency, gain, q) ==
    [enabled |-> enabled, filter_type |-> filter_type, frequency |-> frequency,
     gain |-> gain, q |-> q]

EQPreset(preamp, filters) ==
    [preamp |-> preamp, filters |-> filters, name |-> "", author |-> "", tags |-> ""]

\* Filter(enabled=..., filter_type=..., frequency=..., gain=..., q=...) of a match
FilterOfMatch(m) ==
    Filter(m.g1 = "ON", m.g2, ParseFloat(m.g3), ParseFloat(m.g4), ParseFloat(m.g5))

\* the index a filter line states: the digits between 'Filter' and ':'
StatedIndex(line) ==
    LET from == SkipWhile(line, Len("Filter") + 1, Whitespace)
    IN  DigitsVal(SubSeq(line, from, SkipWhile(line, from, DigitChars) - 1))

\* a parser that places the record at the index its line states
PlaceAtStatedIndex(filters, line, m) ==
    LET at == Min(Max(StatedIndex(line), 1), Len(filters) + 1)
    IN  SubSeq(filters, 1, at - 1) \o <<FilterOfMatch(m)>> \o SubSeq(filters, at, Len(filters))

\* filters.append(Filter(...)): the record goes to the end, whatever index the line states
AppendFilter(filters, line, m) == Append(filters, FilterOfMatch(m))

\* a parser in which the first matching Preamp line wins
PreampFirstWins(preamp, m) == IF m.end # 0 /\ preamp = 0 THEN ParseFloat(m.g1) ELSE preamp

\* the preamp after a line that starts with 'Preamp:'
PreampOf(preamp, m) == IF m.end # 0 THEN ParseFloat(m.g1) ELSE preamp

\* one iteration of the loop over the lines; st is <<preamp, filters>>
ParseLine(st, raw) ==
    LET line == Strip(raw)
    IN  IF StartsWith(line, "Preamp:")
        THEN <<PreampOf(st[1], SearchPreamp(line)), st[2]>>
        ELSE IF StartsWith(line, "Filter")
        THEN LET m == SearchFilter(line)
             IN  IF m.end # 0 THEN <<st[1], AppendFilter(st[2], line, m)>> ELSE st
        ELSE st

RECURSIVE ParseLines(_, _, _)
ParseLines(st, lines, k) ==
    IF k > Len(lines) THEN st ELSE ParseLines(ParseLine(st, lines[k]), lines, k + 1)

parse_text_preset(text) ==
    LET st == ParseLines(<<0, <<>>>>, Split(Strip(text), "\n"), 1)
    IN  EQPreset(st[1], st[2])

(***************************************************************************)
(* Unit transforms.                                                        *)
(***************************************************************************)
NumBands == 24     \* range(1, 25)
Q_MIN == 25        \* 0.025
Q_MAX == 40000     \* 40.0

Returned(v) == [raised |-> FALSE, value |-> v]
ValueError == [raised |-> TRUE, value |-> "math domain error"]

RECURSIVE Log2(_)
\* math.log2 of x > 0, exact when x is a power of two (the fraction of the
\* logarithm of any other x is not represented)
Log2(x) ==
    IF x >= 2 * Scale THEN Scale + Log2(x \div 2)
    ELSE IF x >= Scale THEN 0
    ELSE Log2(2 * x) - Scale

\* math.log2 raises ValueError for an argument that is not positive
frequency_to_proq4(freq_hz) ==
    IF freq_hz <= 0 THEN ValueError ELSE Returned(Log2(freq_hz))

RECURSIVE LogDiff(_, _)
\* math.log(a) - math.log(b) for a >= b > 0, in units of log(40): exact when
\* a / b is a power of 40, as Q_MAX / 1.0 and 1.0 / Q_MIN are
LogDiff(a, b) == IF a < 40 * b THEN 0 ELSE 1 + LogDiff(a \div 40, b)

q_to_proq4(q, filter_type) ==
    LET clamped == Max(Q_MIN, Min(Q_MAX, q))
    IN  (LogDiff(clamped, Q_MIN) * Scale) \div LogDiff(Q_MAX, Q_MIN)

\* a mapping with the codes of the two cut shapes exchanged
ShapeCutsExchanged(filter_type) ==
    CASE filter_type = "PK" -> 0
      [] filter_type = "LSC" -> 1
      [] filter_type = "LP" -> 4
      [] filter_type = "HSC" -> 3
      [] filter_type = "HP" -> 2
      [] OTHER -> 0

filter_type_to_shape(filter_type) ==
    CASE filter_type = "PK" -> 0
      [] filter_type = "LSC" -> 1
      [] filter_type = "LP" -> 2
      [] filter_type = "HSC" -> 3
      [] filter_type = "HP" -> 4
      [] OTHER -> 0

\* preamp / 36.0
preamp_to_output_level(preamp) == (preamp * Scale) \div (36 * Scale)

(***************************************************************************)
(* Band parameters.  A dict is the sequence of its <<key, value>> items in *)
(* insertion order.                                                        *)
(***************************************************************************)
BandKey(band_num, field) == "Band " \o ToString(band_num) \o " " \o field

\* params[key] = value
DictSet(params, key, value) ==
    IF \E k \in DOMAIN params : params[k][1] = key
    THEN [k \in DOMAIN params |-> IF params[k][1] = key THEN <<key, value>> ELSE params[k]]
    ELSE Append(params, <<key, value>>)

generate_default_band_params(band_num, used) ==
    << <<BandKey(band_num, "Used"), IF used THEN "1" ELSE "0">>,
       <<BandKey(band_num, "Enabled"), "1">>,
       <<BandKey(band_num, "Frequency"), "9.96578407287598">>,
       <<BandKey(band_num, "Gain"), "0">>,
       <<BandKey(band_num, "Q"), "0.5">>,
       <<BandKey(band_num, "Shape"), "0">>,
       <<BandKey(band_num, "Slope"), "2">>,
       <<BandKey(band_num, "Stereo Placement"), "2">>,
       <<BandKey(band_num, "Speakers"), "1">>,
       <<BandKey(band_num, "Dynamic Range"), "0">>,
       <<BandKey(band_num, "Dynamics Enabled"), "1">>,
       <<BandKey(band_num, "Dynamics Auto"), "1">>,
       <<BandKey(band_num, "Threshold"), IF ~used THEN "0.666666686534882" ELSE "1">>,
       <<BandKey(band_num, "Attack"), "50">>,
       <<BandKey(band_num, "Release"), "50">>,
       <<BandKey(band_num, "External Side Chain"), "0">>,
       <<BandKey(band_num, "Side Chain Filtering"), "0">>,
       <<BandKey(band_num, "Side Chain Low Frequency"),
         IF ~used THEN "3.32192802429199" ELSE "6.64385604858398">>,
       <<BandKey(band_num, "Side Chain High Frequency"),
         IF ~used THEN "14.287712097168" ELSE "11.5507469177246">>,
       <<BandKey(band_num, "Side Chain Audition"), "0">>,
       <<BandKey(band_num, "Spectral Enabled"), "0">>,
       <<BandKey(band_num, "Spectral Density"), "50">>,
       <<BandKey(band_num, "Solo"), "0">> >>

RECURSIVE CommonPrefix(_, _, _, _)
\* the length of the longest common prefix of a and b, known to lie in lo..hi
CommonPrefix(a, b, lo, hi) ==
    IF lo = hi THEN lo
    ELSE LET mid == (lo + hi + 1) \div 2
         IN  IF SubSeq(a, 1, mid) = SubSeq(b, 1, mid) THEN CommonPrefix(a, b, mid, hi)
             ELSE CommonPrefix(a, b, lo, mid - 1)

\* a < b for Python strings: by code point, a proper prefix first
StrLess(a, b) ==
    LET p == CommonPrefix(a, b, 0, Min(Len(a), Len(b))) + 1
    IN  IF p > Len(b) THEN FALSE
        ELSE IF p > Len(a) THEN TRUE
        ELSE Ord(Ch(a, p)) < Ord(Ch(b, p))

\* int(re.search(r'Band (\d+)', x).group(1))
BandNumOf(x) ==
    LET at == {p \in 1..Len(x) : Plus(x, Lit(x, p, "Band "), DigitChars) # 0}
        p == CHOOSE q \in at : \A r \in at : q <= r
    IN  DigitsVal(Group(x, p + 5, Plus(x, p + 5, DigitChars)))

\* the sort key of line 159: (band number, key)
SortKey(x) == <<BandNumOf(x), x>>

\* k1 < k2 as Python compares the tuples
SortKeyLess(k1, k2) == k1[1] < k2[1] \/ (k1[1] = k2[1] /\ StrLess(k1[2], k2[2]))

\* the keys in insertion order: the loop of line 159 without its sort
UnsortedKeys(params) == [k \in DOMAIN params |-> params[k][1]]

\* sorted(params.keys(), key=...): the sort key of each key is computed once
SortedKeys(params) ==
    LET keyed == [k \in DOMAIN params |-> SortKey(params[k][1])]
        order == SortSeq(keyed, SortKeyLess)
    IN  [k \in DOMAIN order |-> order[k][2]]

\* params[key]
DictGet(params, key) == params[CHOOSE k \in DOMAIN params : params[k][1] = key][2]

\* an index one too low: preset.filters[i - 2], the first band reading filter 0
FilterBelowBand(filters, i) == filters[IF i > 1 THEN i - 1 ELSE i]

\* the filter a band is written from: preset.filters[i - 1]
FilterOfBand(filters, i) == filters[i]

\* i <= len(preset.filters)
HasFilter(filters, i) == i <= Len(filters)

\* 'Band i Enabled'
EnabledFlag(filt) == IF filt.enabled THEN "1" ELSE "0"

\* the params dict of band i (lines 142-156), when no transform raises
BandParams(filters, i) ==
    IF HasFilter(filters, i)
    THEN LET filt == FilterOfBand(filters, i)
             d0 == generate_default_band_params(i, TRUE)
             d1 == DictSet(d0, BandKey(i, "Used"), "1")
             d2 == DictSet(d1, BandKey(i, "Enabled"), EnabledFlag(filt))
             d3 == DictSet(d2, BandKey(i, "Frequency"),
                           FloatStr(frequency_to_proq4(filt.frequency).value))
             d4 == DictSet(d3, BandKey(i, "Gain"), FloatStr(filt.gain))
             d5 == DictSet(d4, BandKey(i, "Q"),
                           FloatStr(q_to_proq4(filt.q, filt.filter_type)))
         IN  DictSet(d5, BandKey(i, "Shape"),
                     ToString(filter_type_to_shape(filt.filter_type)))
    ELSE generate_default_band_params(i, FALSE)

\* the lines appended for band i (lines 159-160)
BandLines(filters, i) ==
    LET params == BandParams(filters, i)
        keys == SortedKeys(params)
    IN  [k \in DOMAIN keys |-> keys[k] \o "=" \o DictGet(params, keys[k])]

RECURSIVE BandsLines(_, _, _)
\* the lines of bands lo..hi, in loop order
BandsLines(filters, lo, hi) ==
    IF lo > hi THEN <<>>
    ELSE IF lo = hi THEN BandLines(filters, lo)
    ELSE BandsLines(filters, lo, (lo + hi) \div 2)
            \o BandsLines(filters, (lo + hi) \div 2 + 1, hi)

HeaderLines(p) ==
    <<"[Preset]", "Signature=FQ4p", "Version=4", "Author=" \o p.author,
      "Tags=" \o p.tags, "", "[Parameters]">>

OutputLevelLine(p) == "Output Level=" \o FloatStr(preamp_to_output_level(p.preamp))

GlobalLines(p) ==
    <<"Processing Mode=0", "Processing Resolution=1", "Character=0", "Gain Scale=1",
      OutputLevelLine(p), "Output Pan=0", "Output Pan Mode=0", "Bypass=0",
      "Output Invert Phase=0", "Auto Gain=0",
      "Analyzer Show Pre-Processing=1", "Analyzer Show Post-Processing=1",
      "Analyzer Show External Spectrum=1", "Analyzer External Spectrum=-1",
      "Analyzer Range=2", "Analyzer Resolution=3", "Analyzer Speed=2", "Analyzer Tilt=0",
      "Analyzer Freeze=0", "Analyzer Show Collisions=0", "Spectrum Grab=0",
      "Display Range=2", "Receive Midi=0", "Solo Gain=0">>

\* the flag computed with i < len(preset.filters)
SpectralTiltLineStrict(filters, i) ==
    BandKey(i, "Spectral Tilt") \o "=" \o (IF i < Len(filters) THEN "1" ELSE "0")

SpectralTiltLine(filters, i) ==
    BandKey(i, "Spectral Tilt") \o "=" \o (IF HasFilter(filters, i) THEN "1" ELSE "0")

SpectralTiltLines(filters) == [i \in 1..NumBands |-> SpectralTiltLine(filters, i)]

\* eq_preset_to_ffp raises: the frequency transform of some band raises (line 150)
EmitRaises(p) ==
    \E i \in 1..NumBands :
        HasFilter(p.filters, i) /\ frequency_to_proq4(FilterOfBand(p.filters, i).frequency).raised

\* an emitter that writes one band per filter when there are more than NumBands
EmitEveryFilter(p) ==
    HeaderLines(p) \o BandsLines(p.filters, 1, Max(NumBands, Len(p.filters)))
        \o GlobalLines(p) \o SpectralTiltLines(p.filters) \o <<"">>

\* the list lines of eq_preset_to_ffp when it reaches its last line without raising
eq_preset_lines(p) ==
    HeaderLines(p) \o BandsLines(p.filters, 1, NumBands) \o GlobalLines(p)
        \o SpectralTiltLines(p.filters) \o <<"">>

\* '\n'.join(lines)
JoinLines(ls) == Join(ls, "\n")

\* the string eq_preset_to_ffp returns when it does not raise
eq_preset_to_ffp(p) == JoinLines(eq_preset_lines(p))

(***************************************************************************)
(* Inputs.                                                                 *)
(***************************************************************************)
\* Lines an input file may hold.  wf: the line has exactly the shape
\* 'Preamp: X dB' or 'Filter N: ON|OFF TYPE Fc F Hz Gain G dB Q Q'.
\* preamps / filters: the literal values the patterns of parse_text_preset
\* capture from the line (none when they do not match).
Catalogue ==
    << [line |-> "Preamp: -9 dB", wf |-> TRUE, preamps |-> <<-9000>>, filters |-> <<>>],
       [line |-> "Preamp:   4.5dB", wf |-> TRUE, preamps |-> <<4500>>, filters |-> <<>>],
       [line |-> "Preamp: loud dB", wf |-> FALSE, preamps |-> <<>>, filters |-> <<>>],
       [line |-> "Preamp: 1.5.2 dB", wf |-> FALSE, preamps |-> <<>>, filters |-> <<>>],
       [line |-> "Filter 1: ON PK Fc 105 Hz Gain 8.2 dB Q 0.70", wf |-> TRUE,
        preamps |-> <<>>, filters |-> <<Filter(TRUE, "PK", 105000, 8200, 700)>>],
       [line |-> "Filter 2: OFF LSC Fc 32 Hz Gain -3.5 dB Q 1.41", wf |-> TRUE,
        preamps |-> <<>>, filters |-> <<Filter(FALSE, "LSC", 32000, -3500, 1410)>>],
       [line |-> "Filter 9: ON HSC Fc 8000 Hz Gain 2 dB Q 0.5", wf |-> TRUE,
        preamps |-> <<>>, filters |-> <<Filter(TRUE, "HSC", 8000000, 2000, 500)>>],
       [line |-> "Filter 1: ON HP Fc 20.5 Hz Gain 0 dB Q 0.707", wf |-> TRUE,
        preamps |-> <<>>, filters |-> <<Filter(TRUE, "HP", 20500, 0, 707)>>],
       [line |-> "  Filter 5: OFF NO Fc 0 Hz Gain -0.5 dB Q 2.  ", wf |-> TRUE,
        preamps |-> <<>>, filters |-> <<Filter(FALSE, "NO", 0, -500, 2000)>>],
       [line |-> "Filter 3: ON PK Fc 1000 Hz Gain 1.5 dB", wf |-> FALSE,
        preamps |-> <<>>, filters |-> <<>>],
       [line |-> "Filter 3: ON PK 1000 Hz Gain 1.5 dB Q 1.0", wf |-> FALSE,
        preamps |-> <<>>, filters |-> <<>>],
       [line |-> "Filter 3: ON PK Fc 1e3 Hz Gain 1.5 dB Q 1.0", wf |-> FALSE,
        preamps |-> <<>>, filters |-> <<>>],
       [line |-> "Filter 3: ON PK Fc 1000 Hz Gain 1,5 dB Q 1.0", wf |-> FALSE,
        preamps |-> <<>>, filters |-> <<>>],
       [line |-> "Filter 3: ON PK Fc 1000 Hz Gain 1.5 dB Q 1e-1", wf |-> FALSE,
        preamps |-> <<>>, filters |-> <<Filter(TRUE, "PK", 1000000, 1500, 1000)>>],
       [line |-> "# ParametricEQ", wf |-> FALSE, preamps |-> <<>>, filters |-> <<>>] >>

RECURSIVE SeqsUpTo(_, _)
\* the sequences over S of length at most n
SeqsUpTo(S, n) ==
    IF n = 0 THEN {<<>>}
    ELSE SeqsUpTo(S, n - 1) \cup {Append(q, x) : q \in SeqsUpTo(S, n - 1), x \in S}

\* the text of a file holding the given catalogue lines, each ended by a newline
TextOf(sc) == Join([k \in DOMAIN sc |-> Catalogue[sc[k]].line] \o <<"">>, "\n")

Scenarios == SeqsUpTo(DOMAIN Catalogue, MaxLines)

\* filters on which the float arithmetic of the transforms is exact
EmitFilters ==
    << Filter(TRUE, "PK", 1024000, 3000, 1000),
       Filter(FALSE, "LP", 16384000, 0, 25),
       Filter(TRUE, "HSC", 8192000, 2500, 100000),
       Filter(FALSE, "HP", 64000, -12000, 10),
       Filter(TRUE, "NO", 500, -1500, 40000),
       Filter(TRUE, "PK", 0, 1000, 1000) >>

\* a preset of n copies of one filter followed by freely chosen ones
PadFilter == Filter(TRUE, "LSC", 2048000, 6000, 1000)
PadCounts == {0, 1, NumBands - 1, NumBands}
EmitPreamps == {0, -9000}
EmitPresets ==
    {[EQPreset(pre, [k \in 1..n |-> PadFilter] \o [k \in DOMAIN ex |-> EmitFilters[ex[k]]])
        EXCEPT !.author = "JRoot3D", !.tags = "Calibration"] :
        pre \in EmitPreamps, n \in PadCounts, ex \in SeqsUpTo(DOMAIN EmitFilters, MaxExtra)}

\* contents of the files the batch driver may find
BatchTexts ==
    {"",
     "# ParametricEQ\nFilter 1: ON PK 1000 Hz Gain 3.0 dB Q 1.0\n",
     "Preamp: -9 dB\nFilter 1: ON PK Fc 1024 Hz Gain 3.0 dB Q 1.0\nFilter 2: OFF HSC Fc 8192 Hz Gain -2.5 dB Q 40\n",
     "Preamp: 4.5 dB\nFilter 1: ON LSC Fc 64 Hz Gain 6 dB Q 1\nFilter 2: ON PK Fc 0 Hz Gain 1 dB Q 1\n"}

Stems == {"HD 650", "K712"}

(***************************************************************************)
(* The script.                                                             *)
(***************************************************************************)
NoPreset == EQPreset(0, <<>>)

\* everything but the text and the preset under conversion, before any file is handled
Idle ==
    /\ parametric_eq_files = <<>>
    /\ idx = 0
    /\ ffp_lines = <<>>
    /\ ffp_content = None
    /\ presets_dir = [s \in Stems |-> NoFile]
    /\ converted_count = 0
    /\ failed_count = 0

\* the script starts
Init ==
    /\ pc = "start"
    /\ scenario = <<>>
    /\ input_text = None
    /\ preset = NoPreset
    /\ Idle

\* convert_text_to_ffp is given one of the texts built from the catalogue
InitParse ==
    /\ pc = "parse"
    /\ scenario \in Scenarios
    /\ input_text = TextOf(scenario)
    /\ preset = NoPreset
    /\ Idle

\* eq_preset_to_ffp is given one of the presets
InitEmit ==
    /\ pc = "emit"
    /\ scenario = <<>>
    /\ input_text = None
    /\ preset \in EmitPresets
    /\ Idle

\* lines 221-240: the work directory, the discovery of the input files
Discover ==
    /\ pc = "start"
    /\ \/ pc' = "exit 1" /\ UNCHANGED parametric_eq_files
       \/ pc' = "exit 0" /\ UNCHANGED parametric_eq_files
       \/ /\ parametric_eq_files' \in SeqsUpTo(Stems, MaxFiles) \ {<<>>}
          /\ pc' = "loop"
    /\ UNCHANGED <<idx, scenario, input_text, preset, ffp_lines, ffp_content, presets_dir,
                   converted_count, failed_count>>

\* line 242: the loop takes the next file
NextFile ==
    /\ pc = "loop"
    /\ idx < Len(parametric_eq_files)
    /\ idx' = idx + 1
    /\ pc' = "read"
    /\ UNCHANGED <<parametric_eq_files, scenario, input_text, preset, ffp_lines, ffp_content,
                   presets_dir, converted_count, failed_count>>

\* lines 244-245: the file is read
ReadFile ==
    /\ pc = "read"
    /\ input_text' \in BatchTexts
    /\ pc' = "parse"
    /\ UNCHANGED <<parametric_eq_files, idx, scenario, preset, ffp_lines, ffp_content, presets_dir,
                   converted_count, failed_count>>

\* lines 244-245: open or read raises
ReadFails ==
    /\ pc = "read"
    /\ pc' = "except"
    /\ UNCHANGED <<parametric_eq_files, idx, scenario, input_text, preset, ffp_lines, ffp_content,
                   presets_dir, converted_count, failed_count>>

\* lines 204-206: the text is parsed, author and tags are attached
Parse ==
    /\ pc = "parse"
    /\ preset' = [parse_text_preset(input_text) EXCEPT !.author = "JRoot3D",
                                                       !.tags = "Calibration"]
    /\ pc' = "emit"
    /\ UNCHANGED <<parametric_eq_files, idx, scenario, input_text, ffp_lines, ffp_content,
                   presets_dir, converted_count, failed_count>>

\* line 209: eq_preset_to_ffp returns
Emit ==
    /\ pc = "emit"
    /\ ~EmitRaises(preset)
    /\ ffp_lines' = eq_preset_lines(preset)
    /\ ffp_content' = JoinLines(ffp_lines')
    /\ pc' = "write"
    /\ UNCHANGED <<parametric_eq_files, idx, scenario, input_text, preset, presets_dir,
                   converted_count, failed_count>>

\* line 209: eq_preset_to_ffp raises; nothing of lines 211-217 runs
EmitFails ==
    /\ pc = "emit"
    /\ EmitRaises(preset)
    /\ pc' = "except"
    /\ UNCHANGED <<parametric_eq_files, idx, scenario, input_text, preset, ffp_lines, ffp_content,
                   presets_dir, converted_count, failed_count>>

\* the output file of the file under conversion (lines 247-248)
OutputFile == parametric_eq_files[idx]

\* lines 212-217 and 259: the output file is written, the conversion counted
WriteFile ==
    /\ pc = "write"
    /\ presets_dir' = [presets_dir EXCEPT ![OutputFile] = ffp_content]
    /\ converted_count' = converted_count + 1
    /\ pc' = "loop"
    /\ UNCHANGED <<parametric_eq_files, idx, scenario, input_text, preset, ffp_lines, ffp_content,
                   failed_count>>

\* a driver without the try/except: the failure ends the script
ExceptEndsBatch ==
    /\ pc = "except"
    /\ pc' = "done"
    /\ UNCHANGED <<parametric_eq_files, idx, scenario, input_text, preset, ffp_lines, ffp_content,
                   presets_dir, converted_count, failed_count>>

\* lines 262-264: the failure is reported and counted
Except ==
    /\ pc = "except"
    /\ failed_count' = failed_count + 1
    /\ pc' = "loop"
    /\ UNCHANGED <<parametric_eq_files, idx, scenario, input_text, preset, ffp_lines, ffp_content,
                   presets_dir, converted_count>>

\* lines 266-271: every file was handled, the summary is printed
Summary ==
    /\ pc = "loop"
    /\ idx = Len(parametric_eq_files)
    /\ pc' = "done"
    /\ UNCHANGED <<parametric_eq_files, idx, scenario, input_text, preset, ffp_lines, ffp_content,
                   presets_dir, converted_count, failed_count>>

Next ==
    \/ Discover
    \/ NextFile
    \/ ReadFile
    \/ ReadFails
    \/ Parse
    \/ Emit
    \/ EmitFails
    \/ WriteFile
    \/ Except
    \/ Summary

\* the batch script
Spec == Init /\ [][Next]_vars

\* parse_text_preset alone, on the texts built from the catalogue
NextParse == Parse
SpecParse == InitParse /\ [][NextParse]_vars

\* eq_preset_to_ffp alone, on the presets
NextEmit == Emit \/ EmitFails
SpecEmit == InitEmit /\ [][NextEmit]_vars

(***************************************************************************)
(* What the claims speak of.                                               *)
(***************************************************************************)
\* the lines of the emitted text
OutLines == ffp_lines

Range(q) == {q[k] : k \in DOMAIN q}

\* the per-band fields of the target format
BandFields ==
    {"Used", "Enabled", "Frequency", "Gain", "Q", "Shape", "Slope", "Stereo Placement",
     "Speakers", "Dynamic Range", "Dynamics Enabled", "Dynamics Auto", "Threshold",
     "Attack", "Release", "External Side Chain", "Side Chain Filtering",
     "Side Chain Low Frequency", "Side Chain High Frequency", "Side Chain Audition",
     "Spectral Enabled", "Spectral Density", "Solo"}

IsTiltLine(l, n) == StartsWith(l, "Band " \o ToString(n) \o " Spectral Tilt=")

\* the band number a band line states
BandOfLine(l) == DigitsVal(SubSeq(l, 6, SkipWhile(l, 6, DigitChars) - 1))

\* the lines of band n's block: 'Band n <field>=<value>', the Spectral Tilt line apart
BandRecord(L, n) ==
    LET prefix == "Band " \o ToString(n) \o " "
        tilt == prefix \o "Spectral Tilt="
    IN  {l \in L : StartsWith(l, prefix) /\ ~StartsWith(l, tilt)}

\* the key of a line 'key=value'
KeyOf(l) == SubSeq(l, 1, FindChar(l, 1, "=") - 1)

\* the record of an unused band
UnusedRecord(n) ==
    {d[1] \o "=" \o d[2] : d \in Range(generate_default_band_params(n, FALSE))}

\* the filters that have a band
FirstBands(filters) == SubSeq(filters, 1, Min(Len(filters), NumBands))

Emitted == pc = "write"

\* C1: band N of the output is written from the N-th filter of the preset: Used=1,
\* Enabled=1 exactly when the filter is ON, and Frequency, Gain, Q and Shape its
\* transforms, also when it is OFF; a band beyond the filters is exactly the unused
\* default record.
C1_BandIsNthFilter ==
    Emitted =>
        LET L == Range(OutLines)
        IN  \A n \in 1..NumBands :
                IF n <= Len(preset.filters)
                THEN LET f == preset.filters[n]
                         B == BandRecord(L, n)
                     IN  /\ Cardinality(B) = Cardinality(BandFields)
                         /\ BandKey(n, "Used") \o "=1" \in B
                         /\ BandKey(n, "Enabled") \o "=" \o (IF f.enabled THEN "1" ELSE "0") \in B
                         /\ BandKey(n, "Frequency") \o "="
                                \o FloatStr(frequency_to_proq4(f.frequency).value) \in B
                         /\ BandKey(n, "Gain") \o "=" \o FloatStr(f.gain) \in B
                         /\ BandKey(n, "Q") \o "=" \o FloatStr(q_to_proq4(f.q, f.filter_type)) \in B
                         /\ BandKey(n, "Shape") \o "="
                                \o ToString(filter_type_to_shape(f.filter_type)) \in B
                ELSE /\ BandRecord(L, n) = UnusedRecord(n)
                     /\ BandKey(n, "Used") \o "=0" \in BandRecord(L, n)

\* an OFF filter in the band after a different filter, and the next band left unused
C1_Witness ==
    /\ Emitted
    /\ Len(preset.filters) = 2
    /\ ~preset.filters[2].enabled
    /\ preset.filters[2] # preset.filters[1]
    /\ LET L == Range(OutLines)
       IN  BandKey(2, "Enabled") \o "=0" \in L /\ BandKey(3, "Used") \o "=0" \in L

\* C2: whatever the number of filters, the output holds exactly the blocks of bands
\* 1..24, each with the full field set, and 24 Spectral Tilt lines; filters beyond
\* the 24th change neither the output nor whether there is one.
C2_AlwaysNumBands ==
    /\ Emitted =>
        LET L == OutLines
            bandLines == {k \in DOMAIN L : StartsWith(L[k], "Band ")}
            tiltLines == {k \in bandLines : IsTiltLine(L[k], BandOfLine(L[k]))}
        IN  /\ Split(ffp_content, "\n") = L
            /\ Cardinality(bandLines) = NumBands * (Cardinality(BandFields) + 1)
            /\ Cardinality(tiltLines) = NumBands
            /\ \A n \in 1..NumBands :
                   /\ {KeyOf(l) : l \in BandRecord(Range(L), n)}
                          = {BandKey(n, fld) : fld \in BandFields}
                   /\ Cardinality({k \in tiltLines : BandOfLine(L[k]) = n}) = 1
            /\ ffp_content = eq_preset_to_ffp([preset EXCEPT !.filters = FirstBands(@)])
    /\ pc = "except" => \E n \in DOMAIN FirstBands(preset.filters) : preset.filters[n].frequency <= 0

\* more filters than bands, the extra one unlike the others, and no filter at all
C2_Witness ==
    /\ Emitted
    /\ Len(preset.filters) = NumBands + 1
    /\ preset.filters[NumBands + 1].frequency <= 0

\* C7: 'Band N Spectral Tilt' is 1 exactly when the preset has an N-th filter, that
\* is exactly for the bands with Used=1, and 0 otherwise.
C7_TiltIffFilter ==
    Emitted =>
        LET L == Range(OutLines)
        IN  \A n \in 1..NumBands :
                /\ (BandKey(n, "Spectral Tilt") \o "=1" \in L) <=> (n <= Len(preset.filters))
                /\ (BandKey(n, "Spectral Tilt") \o "=0" \in L) <=> (n > Len(preset.filters))
                /\ (BandKey(n, "Spectral Tilt") \o "=1" \in L) <=> (BandKey(n, "Used") \o "=1" \in L)

\* the last band holds the last filter
C7_Witness ==
    /\ Emitted
    /\ Len(preset.filters) = NumBands
    /\ BandKey(NumBands, "Spectral Tilt") \o "=1" \in Range(OutLines)

\* the positions of the band blocks' lines in the output
BlockLines(L) ==
    {k \in DOMAIN L : StartsWith(L[k], "Band ") /\ ~IsTiltLine(L[k], BandOfLine(L[k]))}

\* C9: the band blocks' lines come in one fixed order: ascending band number, and
\* within a band ascending key, whatever was overridden and whether the band is used.
C9_FixedOrder ==
    Emitted =>
        LET L == OutLines
            B == BlockLines(L)
        IN  /\ B = (Len(HeaderLines(preset)) + 1)
                       ..(Len(HeaderLines(preset)) + NumBands * Cardinality(BandFields))
            /\ \A k \in B :
                   k + 1 \in B =>
                       \/ BandOfLine(L[k]) < BandOfLine(L[k + 1])
                       \/ /\ BandOfLine(L[k]) = BandOfLine(L[k + 1])
                          /\ StrLess(KeyOf(L[k]), KeyOf(L[k + 1]))

\* used bands with overridden fields, then an unused one; band 2 before band 10
C9_Witness ==
    /\ Emitted
    /\ Len(preset.filters) = NumBands - 1
    /\ LET L == OutLines
       IN  \E j \in DOMAIN L :
               /\ L[j] = BandKey(2, "Used") \o "=1"
               /\ \E k \in DOMAIN L : j < k /\ L[k] = BandKey(10, "Attack") \o "=50"

\* the shape codes of the target format
ShapeCode(token) ==
    CASE token = "PK" -> "0" [] token = "LSC" -> "1" [] token = "LP" -> "2"
      [] token = "HSC" -> "3" [] token = "HP" -> "4" [] OTHER -> "0"

RECURSIVE Flatten(_)
\* the concatenation of a sequence of sequences
Flatten(qq) == IF Len(qq) = 0 THEN <<>> ELSE Flatten(SubSeq(qq, 1, Len(qq) - 1)) \o qq[Len(qq)]

\* what the catalogue says the lines of the text hold, in the order of the text
MatchedPreamps == Flatten([k \in DOMAIN scenario |-> Catalogue[scenario[k]].preamps])
MatchedFilters == Flatten([k \in DOMAIN scenario |-> Catalogue[scenario[k]].filters])
WellFormedFilters ==
    Flatten([k \in DOMAIN scenario |->
                IF Catalogue[scenario[k]].wf THEN Catalogue[scenario[k]].filters ELSE <<>>])

Parsed == pc = "emit"

\* C4: a line that has not exactly the shape of a filter line (a field missing, a
\* malformed number in any field) contributes no filter; every well-formed filter
\* line contributes one filter holding the literal values of the line.
C4_OnlyWellFormedLines == Parsed => preset.filters = WellFormedFilters

\* C5: the preamp is the value of the last line of the text that matches
\* 'Preamp: X dB', and 0.0 when no line matches.
C5_LastPreampWins ==
    Parsed =>
        preset.preamp = (IF MatchedPreamps = <<>> THEN 0
                         ELSE MatchedPreamps[Len(MatchedPreamps)])

\* two matching Preamp lines with different values: the later one is the preamp
C5_Witness ==
    /\ Parsed
    /\ Len(MatchedPreamps) = 2
    /\ MatchedPreamps[1] # MatchedPreamps[2]
    /\ preset.preamp = MatchedPreamps[2]

\* C6: the filters are those of the matching filter lines in the order of the
\* text, whatever index each line states.
C6_ScanOrder == Parsed => preset.filters = MatchedFilters

\* 'Filter 9: ...' before 'Filter 1: ...': the records keep the order of the lines
C6_Witness ==
    /\ Parsed
    /\ Len(scenario) = 2
    /\ StartsWith(Catalogue[scenario[1]].line, "Filter 9:")
    /\ StartsWith(Catalogue[scenario[2]].line, "Filter 1:")
    /\ Len(preset.filters) = 2
    /\ preset.filters[1].filter_type = "HSC"

\* the text holds no line that starts with 'Preamp:'
NoPreampLine ==
    \A l \in Range(Split(input_text, "\n")) : ~StartsWith(Strip(l), "Preamp:")

ZeroFilterCase == Emitted /\ Len(preset.filters) = 0 /\ NoPreampLine

ZeroFilterBands(L) ==
    \A n \in 1..NumBands :
        /\ BandRecord(L, n) = UnusedRecord(n)
        /\ BandKey(n, "Spectral Tilt") \o "=0" \in L
        /\ BandKey(n, "Spectral Tilt") \o "=1" \notin L

OutputLevelLines(L) == {l \in L : StartsWith(l, "Output Level=")}

\* C8 as stated: with no filter and no Preamp line every band is the unused default
\* record, every Spectral Tilt is 0 and the global line is exactly 'Output Level=0'.
C8_ZeroFiltersAsStated ==
    ZeroFilterCase =>
        LET L == Range(OutLines)
        IN  ZeroFilterBands(L) /\ OutputLevelLines(L) = {"Output Level=0"}

\* C8 as amended: the global line is exactly 'Output Level=0.0', the str() of the
\* float 0.0 / 36.0.
C8_ZeroFilters ==
    ZeroFilterCase =>
        LET L == Range(OutLines)
        IN  ZeroFilterBands(L) /\ OutputLevelLines(L) = {"Output Level=0.0"}

\* a file with a comment and a malformed filter line was converted
C8_Witness ==
    /\ ZeroFilterCase
    /\ input_text # ""
    /\ idx >= 1

\* some filter that has a band has a frequency that is not positive
DomainErrorCase ==
    \E n \in DOMAIN FirstBands(preset.filters) : preset.filters[n].frequency <= 0

\* a conversion that meets the domain error goes to the handler, writing no file
AbortsConversion ==
    (pc = "emit" /\ DomainErrorCase) =>
        (pc' = "except" /\ presets_dir' = presets_dir /\ converted_count' = converted_count)

\* the handler counts one failure and hands the same file list back to the loop
CountsAndGoesOn ==
    (pc = "except") =>
        (/\ pc' = "loop"
         /\ failed_count' = failed_count + 1
         /\ idx' = idx
         /\ parametric_eq_files' = parametric_eq_files
         /\ presets_dir' = presets_dir
         /\ converted_count' = converted_count)

\* C3: a domain error in a transform aborts the conversion of that preset alone: no
\* output file is written for it, the driver counts it as failed and goes on with
\* the loop; the script ends only when every discovered file was converted or
\* counted as failed.
C3_FailureIsPerFile ==
    /\ [][AbortsConversion /\ CountsAndGoesOn]_vars
    /\ [](pc = "done" =>
            /\ idx = Len(parametric_eq_files)
            /\ converted_count + failed_count = Len(parametric_eq_files))
    /\ [](pc = "loop" => converted_count + failed_count = idx)

\* the first file was parsed and failed with a domain error, no file was written,
\* and the loop has gone on to the second file
C3_Witness ==
    /\ pc = "read"
    /\ idx = 2
    /\ failed_count = 1
    /\ converted_count = 0
    /\ DomainErrorCase
    /\ \A s \in Stems : presets_dir[s] = NoFile

====
